---- MODULE Spec2Model ----
(***************************************************************************)
(* mpk-mini-ctl: the bank descriptor codec and the Note and U14 scalar     *)
(* conversions (mpkbank.rs, u14.rs), the MIDI message decoder (mpkmidi.rs), *)
(* the get-bank request/response correlator and the set-bank request       *)
(* (operations.rs), as state machines.                                      *)
(*                                                                         *)
(* Byte buffers are sequences over 0..255.  Rust offsets are 0-based, so   *)
(* At(bytes, i) reads bytes[i] of the source.                              *)
(***************************************************************************)
EXTENDS Integers, Sequences, FiniteSets, TLC

VARIABLES
    \* ---- codec runs (from / into_bytes / parse_msg applied to one input)
    cpc,        \* position of the codec run
    buf,        \* input bytes: a bank descriptor buffer, or a MIDI frame
    din,        \* input descriptor (a value built from a settings document)
    dec,        \* result of MpkBankDescriptor::from
    enc,        \* result of MpkBankDescriptor::into_bytes
    msg,        \* result of parse_msg
    shown,      \* the numbers Display writes for a decoded descriptor
    doc,        \* the settings document written for a decoded descriptor
    loaded,     \* result of reading that document back
    \* ---- get_bank_desc
    pc,         \* position of the calling thread
    bank,       \* the requested bank index
    reqAt,      \* how many frames had been received when the request was sent
    chan,       \* the mpsc channel: descriptors sent and not yet received
    txAlive,    \* the Sender (owned by the callback) has not been dropped
    inOpen,     \* the input connection exists: the callback can be run
    outOpen,    \* the output connection exists
    sent,       \* frames written to the output port, in order
    received,   \* frames the transport has handed to the callback, in order
    log,        \* log records written by the callback, in order
    result,     \* what the operation returned
    \* ---- scalar codec runs (Note and U14BE applied to one input)
    spc,        \* position of the scalar run
    sin,        \* its input: a text, a note value, a host value or wire bytes
    sout,       \* result of the first conversion
    sback       \* result of converting that result back

codecVars == <<cpc, buf, din, dec, enc, msg, shown, doc, loaded>>
corrVars  == <<pc, bank, reqAt, chan, txAlive, inOpen, outOpen, sent, received,
               log, result>>
scalarVars == <<spc, sin, sout, sback>>
vars      == <<cpc, buf, din, dec, enc, msg, shown, doc, loaded,
               pc, bank, reqAt, chan, txAlive, inOpen, outOpen, sent, received, log,
               result, spc, sin, sout, sback>>

-----------------------------------------------------------------------------
(* Bounds of the model *)

\* how many fields of the base buffer / base descriptor an input may change
MaxPatches == 2
\* longest frame built from the sample bytes
MaxShortLen == 3
\* how many frames the transport delivers during one get_bank_desc
MaxFrames == 3
\* how many bytes longer than expected an input of a length test may be
MaxExtraLen == 2

-----------------------------------------------------------------------------
(* Program constants *)

MIDI_SYSEX == 240
MIDI_SYSEX_END == 247
SYSEX_AKAI == 71
MIDI_RESET == 255
MIDI_NOTE_OFF == 128
MIDI_NOTE_ON == 144
MIDI_POLYPHONIC_PRESSURE == 160
MIDI_CONTROL_CHANGE == 176
MIDI_PROGRAM_CHANGE == 192
MIDI_CHANNEL_PRESSURE == 208
MIDI_PITCH_BEND == 224
SYSEX_MPK_BANK == <<0, 38, 103, 0, 109>>
MPK_BANK_DESCRIPTOR_LENGTH == 108

-----------------------------------------------------------------------------
(* Values *)

Byte == 0..255

At(bytes, i) == bytes[i + 1]

\* bytes[from..to] of the source (to exclusive)
Slice(bytes, from, to) == SubSeq(bytes, from + 1, to)

Min(S) == CHOOSE m \in S : \A n \in S : m <= n

RECURSIVE Flatten(_)
Flatten(ss) == IF ss = <<>> THEN <<>> ELSE Head(ss) \o Flatten(Tail(ss))

Ok(v) == [tag |-> "Ok", v |-> v]
Err(kind, val) == [tag |-> "Err", kind |-> kind, val |-> val]
Panic(why) == [tag |-> "Panic", why |-> why]

-----------------------------------------------------------------------------
(* u14.rs *)

U14BE_from_device(bytes) ==
    IF At(bytes, 0) >= 128 \/ At(bytes, 1) >= 128
    THEN Err("U14BEMsbSet", bytes)
    ELSE Ok(At(bytes, 0) * 128 + At(bytes, 1))

\* the test with mask 0x8000 for 0xc000
U14BE_to_device_mask_8000(host) ==
    IF host \div 32768 # 0
    THEN Err("U14BEValueTooLarge", host)
    ELSE Ok(<<(host % 16384) \div 128, host % 128>>)

\* host is a u16
U14BE_to_device(host) ==
    IF host \div 16384 # 0
    THEN Err("U14BEValueTooLarge", host)
    ELSE Ok(<<(host % 16384) \div 128, host % 128>>)

-----------------------------------------------------------------------------
(* mpkbank.rs: the sub-records *)

Toggle_from(value) ==
    CASE value = 0 -> Ok("Off")
      [] value = 1 -> Ok("On")
      [] OTHER -> Err("ToggleUnknown", value)

Toggle_as_u8(t) == IF t = "Off" THEN 0 ELSE 1

Knob_from(raw) == [control |-> At(raw, 0), min |-> At(raw, 1), max |-> At(raw, 2)]

Knob_to_bytes(k) == <<k.control, k.min, k.max>>

PadMode_from(value) ==
    CASE value = 0 -> Ok("Momentary")
      [] value = 1 -> Ok("Toggle")
      [] OTHER -> Err("PadmodeUnknown", value)

PadMode_as_u8(m) == IF m = "Momentary" THEN 0 ELSE 1

Pad_from(value) ==
    LET mode == PadMode_from(At(value, 3))
    IN  IF mode.tag # "Ok" THEN mode
        ELSE Ok([note |-> At(value, 0), program |-> At(value, 1),
                 control |-> At(value, 2), mode |-> mode.v])

Pad_to_bytes(p) == <<p.note, p.control, p.program, PadMode_as_u8(p.mode)>>

ClockSource_from(value) ==
    CASE value = 0 -> Ok("Internal")
      [] value = 1 -> Ok("External")
      [] OTHER -> Err("ClockSourceUnknown", value)

ClockSource_as_u8(c) == IF c = "Internal" THEN 0 ELSE 1

ArpeggiatorTimeDivisionNames == <<"_4", "_4T", "_8", "_8T", "_16", "_16T", "_32", "_32T">>

ArpeggiatorTimeDivision_from(value) ==
    IF value <= 7 THEN Ok(ArpeggiatorTimeDivisionNames[value + 1])
    ELSE Err("ArpeggiatorTimeDivisionInvalid", value)

ArpeggiatorTimeDivision_as_u8(d) ==
    (CHOOSE i \in 1..8 : ArpeggiatorTimeDivisionNames[i] = d) - 1

ArpeggiatorModeNames == <<"Up", "Down", "Exclusive", "Inclusive", "Order", "Random">>

ArpeggiatorMode_from(value) ==
    IF value <= 5 THEN Ok(ArpeggiatorModeNames[value + 1])
    ELSE Err("ArpeggiatorModeInvalid", value)

ArpeggiatorMode_as_u8(m) ==
    (CHOOSE i \in 1..6 : ArpeggiatorModeNames[i] = m) - 1

SwingNames == <<"_50", "_55", "_57", "_59", "_61", "_64">>

Swing_from(value) ==
    IF value <= 5 THEN Ok(SwingNames[value + 1])
    ELSE Err("SwingInvalid", value)

Swing_as_u8(s) == (CHOOSE i \in 1..6 : SwingNames[i] = s) - 1

\* the error message is built from bytes[1], not from the tag bytes[0]
Joystick_from(bytes) ==
    CASE At(bytes, 0) = 0 -> Ok(<<"Pitchbend">>)
      [] At(bytes, 0) = 1 -> Ok(<<"ControlChannel", At(bytes, 1)>>)
      [] At(bytes, 0) = 2 -> Ok(<<"SplitControlChannels", At(bytes, 1), At(bytes, 2)>>)
      [] OTHER -> Err("JoystickModeInvalid", At(bytes, 1))

Joystick_to_bytes(j) ==
    CASE j[1] = "Pitchbend" -> <<0, 0, 0>>
      [] j[1] = "ControlChannel" -> <<1, j[2], 0>>
      [] j[1] = "SplitControlChannels" -> <<2, j[2], j[3]>>

-----------------------------------------------------------------------------
(* mpkbank.rs: Note.  A text is the sequence of its characters.             *)

DigitChars == <<"0", "1", "2", "3", "4", "5", "6", "7", "8", "9">>

IsDigit(c) == \E i \in 1..10 : DigitChars[i] = c

DigitValue(c) == (CHOOSE i \in 1..10 : DigitChars[i] = c) - 1

\* s.split(' '): the pieces between the spaces, the empty ones included
RECURSIVE str_split(_)
str_split(s) ==
    LET spaces == {i \in 1..Len(s) : s[i] = " "}
    IN  IF spaces = {} THEN <<s>>
        ELSE <<SubSeq(s, 1, Min(spaces) - 1)>>
                 \o str_split(SubSeq(s, Min(spaces) + 1, Len(s)))

RECURSIVE DigitsValue(_)
DigitsValue(ds) ==
    IF ds = <<>> THEN 0
    ELSE DigitsValue(SubSeq(ds, 1, Len(ds) - 1)) * 10 + DigitValue(ds[Len(ds)])

\* str::parse::<i8>: an optional sign, at least one digit, nothing else, and
\* a value in -128..127
parse_i8(t) ==
    LET signed == t # <<>> /\ t[1] \in {"+", "-"}
        digits == IF signed THEN Tail(t) ELSE t
        value  == IF signed /\ t[1] = "-" THEN 0 - DigitsValue(digits)
                  ELSE DigitsValue(digits)
    IN  IF t = <<>> THEN Err("ParseIntError", "Empty")
        ELSE IF digits = <<>> \/ \E i \in 1..Len(digits) : ~IsDigit(digits[i])
        THEN Err("ParseIntError", "InvalidDigit")
        ELSE IF value > 127 THEN Err("ParseIntError", "PosOverflow")
        ELSE IF value < -128 THEN Err("ParseIntError", "NegOverflow")
        ELSE Ok(value)

RECURSIVE format_digits(_)
format_digits(n) ==
    IF n < 10 THEN <<DigitChars[n + 1]>>
    ELSE format_digits(n \div 10) \o <<DigitChars[(n % 10) + 1]>>

\* format!("{}", n) of an integer
format_int(n) == IF n < 0 THEN <<"-">> \o format_digits(0 - n) ELSE format_digits(n)

\* the match of from_str on the note name
note_of_name(name) ==
    CASE name = <<"C">> -> Ok(0)
      [] name \in {<<"C", "#", "/", "D", "b">>, <<"C", "#">>, <<"D", "b">>} -> Ok(1)
      [] name = <<"D">> -> Ok(2)
      [] name \in {<<"D", "#", "/", "E", "b">>, <<"D", "#">>, <<"E", "b">>} -> Ok(3)
      [] name = <<"E">> -> Ok(4)
      [] name = <<"F">> -> Ok(5)
      [] name \in {<<"F", "#", "/", "G", "b">>, <<"F", "#">>, <<"G", "b">>} -> Ok(6)
      [] name = <<"G">> -> Ok(7)
      [] name \in {<<"G", "#", "/", "A", "b">>, <<"G", "#">>, <<"A", "b">>} -> Ok(8)
      [] name = <<"A">> -> Ok(9)
      [] name \in {<<"A", "#", "/", "B", "b">>, <<"A", "#">>, <<"B", "b">>} -> Ok(10)
      [] name = <<"B">> -> Ok(11)
      [] OTHER -> Err("ParseError", "cannot parse note")

\* the match of as_str on value % 12
NoteNames ==
    << <<"C">>, <<"C", "#", "/", "D", "b">>, <<"D">>, <<"D", "#", "/", "E", "b">>,
       <<"E">>, <<"F">>, <<"F", "#", "/", "G", "b">>, <<"G">>,
       <<"G", "#", "/", "A", "b">>, <<"A">>, <<"A", "#", "/", "B", "b">>, <<"B">> >>

fits_i8(x) == x >= -128 /\ x <= 127

\* the i8 a wrapping operation leaves
wrap_i8(x) == ((x + 128) % 256) - 128

\* ((octave + 1) * 12) as u8 + note with the octave read as i8 without the
\* `+ 1`
Note_from_str_no_offset(s, overflow_checks) ==
    LET note_octave == str_split(s)
    IN  IF Len(note_octave) # 2
        THEN Err("ParseError", "expected string with exactly one space")
        ELSE LET note == note_of_name(note_octave[1])
                 octave == parse_i8(note_octave[2])
             IN  IF note.tag # "Ok" THEN note
                 ELSE IF octave.tag # "Ok"
                 THEN Panic("called Result::unwrap() on an Err value")
                 ELSE Ok((((wrap_i8(octave.v * 12)) % 256) + note.v) % 256)

\* Note::from_str.  The i8 and u8 arithmetic panics on overflow in a build
\* with overflow checks and wraps in one without.
Note_from_str(s, overflow_checks) ==
    LET note_octave == str_split(s)
    IN  IF Len(note_octave) # 2
        THEN Err("ParseError", "expected string with exactly one space")
        ELSE LET note == note_of_name(note_octave[1])
                 octave == parse_i8(note_octave[2])
                 plus1 == octave.v + 1
                 times == wrap_i8(plus1) * 12
                 as_u8 == wrap_i8(times) % 256
                 sum   == as_u8 + note.v
             IN  IF note.tag # "Ok" THEN note
                 ELSE IF octave.tag # "Ok"
                 THEN Panic("called Result::unwrap() on an Err value")
                 ELSE IF overflow_checks
                         /\ (~fits_i8(plus1) \/ ~fits_i8(times) \/ sum > 255)
                 THEN Panic("attempt to add or multiply with overflow")
                 ELSE Ok(sum % 256)

\* Note::as_str, value: u8
Note_as_str(value) ==
    NoteNames[(value % 12) + 1] \o <<" ">> \o format_int((value \div 12) - 1)

-----------------------------------------------------------------------------
(* mpkbank.rs: MpkBankDescriptor *)

parse_knobs(bytes) ==
    IF Len(bytes) # 8 * 3
    THEN Err("BankKnobsUnexpectedLength", Len(bytes))
    ELSE Ok([i \in 1..8 |-> Knob_from(Slice(bytes, (i - 1) * 3, (i - 1) * 3 + 3))])

parse_pads(bytes) ==
    IF Len(bytes) # 16 * 4
    THEN Err("BankPadsUnexpectedLength", Len(bytes))
    ELSE LET pads == [i \in 1..16 |-> Pad_from(Slice(bytes, (i - 1) * 4, (i - 1) * 4 + 4))]
             bad  == {i \in 1..16 : pads[i].tag # "Ok"}
         IN  IF bad # {} THEN pads[Min(bad)]
             ELSE Ok([i \in 1..16 |-> pads[i].v])

\* from with the length test `<` for `!=`
MpkBankDescriptor_from_at_least(bytes) ==
    IF Len(bytes) < MPK_BANK_DESCRIPTOR_LENGTH
    THEN Err("BankDescriptionUnexpectedLength", Len(bytes))
    ELSE LET f == << Toggle_from(At(bytes, 3)),
                     ArpeggiatorMode_from(At(bytes, 4)),
                     ArpeggiatorTimeDivision_from(At(bytes, 5)),
                     ClockSource_from(At(bytes, 6)),
                     Toggle_from(At(bytes, 7)),
                     Swing_from(At(bytes, 8)),
                     U14BE_from_device(Slice(bytes, 10, 12)),
                     Joystick_from(Slice(bytes, 13, 16)),
                     Joystick_from(Slice(bytes, 16, 19)),
                     parse_pads(Slice(bytes, 19, 83)),
                     parse_knobs(Slice(bytes, 83, 107)) >>
             bad == {i \in 1..Len(f) : f[i].tag # "Ok"}
         IN  IF bad # {} THEN f[Min(bad)]
             ELSE Ok([pad_midi_channel |-> At(bytes, 0),
                      keybed_channel |-> At(bytes, 1),
                      octave |-> At(bytes, 2),
                      arpeggiator |-> f[1].v,
                      arpeggiator_mode |-> f[2].v,
                      arpeggiator_time_division |-> f[3].v,
                      clock_source |-> f[4].v,
                      latch |-> f[5].v,
                      swing |-> f[6].v,
                      tempo_taps |-> At(bytes, 9),
                      tempo |-> f[7].v,
                      arpeggiator_octave |-> At(bytes, 12),
                      joystick_x |-> f[8].v,
                      joystick_y |-> f[9].v,
                      pads |-> f[10].v,
                      knobs |-> f[11].v,
                      transpose |-> At(bytes, 107)])

\* The struct literal evaluates its fields in the order written; the first
\* `?` that sees an error returns it.
MpkBankDescriptor_from(bytes) ==
    IF Len(bytes) # MPK_BANK_DESCRIPTOR_LENGTH
    THEN Err("BankDescriptionUnexpectedLength", Len(bytes))
    ELSE LET f == << Toggle_from(At(bytes, 3)),
                     ArpeggiatorMode_from(At(bytes, 4)),
                     ArpeggiatorTimeDivision_from(At(bytes, 5)),
                     ClockSource_from(At(bytes, 6)),
                     Toggle_from(At(bytes, 7)),
                     Swing_from(At(bytes, 8)),
                     U14BE_from_device(Slice(bytes, 10, 12)),
                     Joystick_from(Slice(bytes, 13, 16)),
                     Joystick_from(Slice(bytes, 16, 19)),
                     parse_pads(Slice(bytes, 19, 83)),
                     parse_knobs(Slice(bytes, 83, 107)) >>
             bad == {i \in 1..Len(f) : f[i].tag # "Ok"}
         IN  IF bad # {} THEN f[Min(bad)]
             ELSE Ok([pad_midi_channel |-> At(bytes, 0),
                      keybed_channel |-> At(bytes, 1),
                      octave |-> At(bytes, 2),
                      arpeggiator |-> f[1].v,
                      arpeggiator_mode |-> f[2].v,
                      arpeggiator_time_division |-> f[3].v,
                      clock_source |-> f[4].v,
                      latch |-> f[5].v,
                      swing |-> f[6].v,
                      tempo_taps |-> At(bytes, 9),
                      tempo |-> f[7].v,
                      arpeggiator_octave |-> At(bytes, 12),
                      joystick_x |-> f[8].v,
                      joystick_y |-> f[9].v,
                      pads |-> f[10].v,
                      knobs |-> f[11].v,
                      transpose |-> At(bytes, 107)])

\* to_device().unwrap() panics on a tempo that does not fit 14 bits
MpkBankDescriptor_into_bytes(d) ==
    LET tempo == U14BE_to_device(d.tempo)
    IN  IF tempo.tag # "Ok" THEN Panic("unwrap on U14BEValueTooLarge")
        ELSE Ok(<< d.pad_midi_channel,
                   d.keybed_channel,
                   d.octave,
                   Toggle_as_u8(d.arpeggiator),
                   ArpeggiatorMode_as_u8(d.arpeggiator_mode),
                   ArpeggiatorTimeDivision_as_u8(d.arpeggiator_time_division),
                   ClockSource_as_u8(d.clock_source),
                   Toggle_as_u8(d.latch),
                   Swing_as_u8(d.swing),
                   d.tempo_taps >>
                \o tempo.v
                \o <<d.arpeggiator_octave>>
                \o Joystick_to_bytes(d.joystick_x)
                \o Joystick_to_bytes(d.joystick_y)
                \o Flatten([i \in 1..16 |-> Pad_to_bytes(d.pads[i])])
                \o Flatten([i \in 1..8 |-> Knob_to_bytes(d.knobs[i])])
                \o <<d.transpose>>)

-----------------------------------------------------------------------------
(* mpkbank.rs: Display for MpkBankDescriptor, the lines computed with       *)
(* arithmetic (lines 406-409 and 414)                                       *)

\* x as i8, for x: u8
as_i8(x) == IF x >= 128 THEN x - 256 ELSE x

\* the u8 sum x + 1
u8_add_1(x, overflow_checks) ==
    IF x + 1 > 255
    THEN IF overflow_checks THEN Panic("attempt to add with overflow") ELSE Ok(0)
    ELSE Ok(x + 1)

\* the i8 difference (x as i8) - k
i8_sub(x, k, overflow_checks) ==
    IF ~fits_i8(as_i8(x) - k)
    THEN IF overflow_checks THEN Panic("attempt to subtract with overflow")
         ELSE Ok(wrap_i8(as_i8(x) - k))
    ELSE Ok(as_i8(x) - k)

MpkBankDescriptor_fmt(d, overflow_checks) ==
    LET f == << u8_add_1(d.pad_midi_channel, overflow_checks),
                u8_add_1(d.keybed_channel, overflow_checks),
                i8_sub(d.octave, 4, overflow_checks),
                i8_sub(d.transpose, 12, overflow_checks),
                u8_add_1(d.arpeggiator_octave, overflow_checks) >>
        bad == {i \in 1..Len(f) : f[i].tag # "Ok"}
    IN  IF bad # {} THEN f[Min(bad)]
        ELSE Ok([pad_midi_channel |-> format_int(f[1].v),
                 keybed_channel |-> format_int(f[2].v),
                 octave |-> format_int(f[3].v),
                 transpose |-> format_int(f[4].v),
                 arpeggiator_octave |-> format_int(f[5].v)])

-----------------------------------------------------------------------------
(* mpkbank.rs: the settings document.  The derived Serialize writes a u8 or *)
(* u16 as its decimal digits and an enum by its variant name; a Note is     *)
(* written by as_str and read by from_str (lines 42-74).                    *)

\* a number of the document read into an unsigned type with largest value max
read_unsigned(t, max) ==
    IF t = <<>> \/ \E i \in 1..Len(t) : ~IsDigit(t[i])
    THEN Err("invalid type", t)
    ELSE IF DigitsValue(t) > max THEN Err("invalid value", t)
    ELSE Ok(DigitsValue(t))

Joystick_serialize(j) ==
    CASE j[1] = "Pitchbend" -> j
      [] j[1] = "ControlChannel" -> <<j[1], format_int(j[2])>>
      [] j[1] = "SplitControlChannels" -> <<j[1], format_int(j[2]), format_int(j[3])>>

\* the parameters of a joystick of the document, as read_unsigned results
Joystick_numbers(j) == [i \in 1..(Len(j) - 1) |-> read_unsigned(j[i + 1], 255)]

Joystick_deserialize(j) ==
    CASE j[1] = "Pitchbend" -> j
      [] j[1] = "ControlChannel" -> <<j[1], DigitsValue(j[2])>>
      [] j[1] = "SplitControlChannels" -> <<j[1], DigitsValue(j[2]), DigitsValue(j[3])>>

\* serde_yaml::to_string(&bank_desc)
MpkBankDescriptor_serialize(d) ==
    [pad_midi_channel |-> format_int(d.pad_midi_channel),
     keybed_channel |-> format_int(d.keybed_channel),
     octave |-> format_int(d.octave),
     arpeggiator |-> d.arpeggiator,
     arpeggiator_mode |-> d.arpeggiator_mode,
     arpeggiator_time_division |-> d.arpeggiator_time_division,
     clock_source |-> d.clock_source,
     latch |-> d.latch,
     swing |-> d.swing,
     tempo_taps |-> format_int(d.tempo_taps),
     tempo |-> [host |-> format_int(d.tempo)],
     arpeggiator_octave |-> format_int(d.arpeggiator_octave),
     joystick_x |-> Joystick_serialize(d.joystick_x),
     joystick_y |-> Joystick_serialize(d.joystick_y),
     pads |-> [i \in 1..16 |-> [note |-> Note_as_str(d.pads[i].note),
                                program |-> format_int(d.pads[i].program),
                                control |-> format_int(d.pads[i].control),
                                mode |-> d.pads[i].mode]],
     knobs |-> [i \in 1..8 |-> [control |-> format_int(d.knobs[i].control),
                                min |-> format_int(d.knobs[i].min),
                                max |-> format_int(d.knobs[i].max)]],
     transpose |-> format_int(d.transpose)]

\* serde_yaml::from_reader: the first value that cannot be read fails the
\* whole document; a panic of Note::from_str is not caught
MpkBankDescriptor_deserialize(y, overflow_checks) ==
    LET notes == [i \in 1..16 |-> Note_from_str(y.pads[i].note, overflow_checks)]
        numbers ==
            << read_unsigned(y.pad_midi_channel, 255),
               read_unsigned(y.keybed_channel, 255),
               read_unsigned(y.octave, 255),
               read_unsigned(y.tempo_taps, 255),
               read_unsigned(y.tempo.host, 65535),
               read_unsigned(y.arpeggiator_octave, 255),
               read_unsigned(y.transpose, 255) >>
                \o Joystick_numbers(y.joystick_x)
                \o Joystick_numbers(y.joystick_y)
                \o Flatten([i \in 1..16 |->
                       << read_unsigned(y.pads[i].program, 255),
                          read_unsigned(y.pads[i].control, 255) >>])
                \o Flatten([i \in 1..8 |->
                       << read_unsigned(y.knobs[i].control, 255),
                          read_unsigned(y.knobs[i].min, 255),
                          read_unsigned(y.knobs[i].max, 255) >>])
        panicked == {i \in 1..16 : notes[i].tag = "Panic"}
        bad_note == {i \in 1..16 : notes[i].tag = "Err"}
        bad_number == {i \in 1..Len(numbers) : numbers[i].tag # "Ok"}
    IN  IF panicked # {} /\ \A i \in bad_note : Min(panicked) < i
        THEN notes[Min(panicked)]
        ELSE IF bad_note # {} THEN Err("invalid value", y.pads[Min(bad_note)].note)
        ELSE IF bad_number # {} THEN numbers[Min(bad_number)]
        ELSE Ok([pad_midi_channel |-> DigitsValue(y.pad_midi_channel),
                 keybed_channel |-> DigitsValue(y.keybed_channel),
                 octave |-> DigitsValue(y.octave),
                 arpeggiator |-> y.arpeggiator,
                 arpeggiator_mode |-> y.arpeggiator_mode,
                 arpeggiator_time_division |-> y.arpeggiator_time_division,
                 clock_source |-> y.clock_source,
                 latch |-> y.latch,
                 swing |-> y.swing,
                 tempo_taps |-> DigitsValue(y.tempo_taps),
                 tempo |-> DigitsValue(y.tempo.host),
                 arpeggiator_octave |-> DigitsValue(y.arpeggiator_octave),
                 joystick_x |-> Joystick_deserialize(y.joystick_x),
                 joystick_y |-> Joystick_deserialize(y.joystick_y),
                 pads |-> [i \in 1..16 |->
                              [note |-> notes[i].v,
                               program |-> DigitsValue(y.pads[i].program),
                               control |-> DigitsValue(y.pads[i].control),
                               mode |-> y.pads[i].mode]],
                 knobs |-> [i \in 1..8 |->
                               [control |-> DigitsValue(y.knobs[i].control),
                                min |-> DigitsValue(y.knobs[i].min),
                                max |-> DigitsValue(y.knobs[i].max)]],
                 transpose |-> DigitsValue(y.transpose)])

-----------------------------------------------------------------------------
(* mpkmidi.rs: the decoder's own copy of the descriptor types.  Its         *)
(* constructors return the value itself and panic where mpkbank.rs returns  *)
(* an error.                                                                *)

Some(m) == [tag |-> "Some", msg |-> m]
None(diag) == [tag |-> "None", diag |-> diag]

\* no check of the two high bits
\* ((bytes[0] as u16) << 7) | bytes[1] as u16, with no test of the high bits:
\* bit 7 is the one bit the two operands can share
midi_U14BE_from_device(bytes) ==
    LET hi == At(bytes, 0) * 128
        lo == At(bytes, 1)
        shared == IF At(bytes, 0) % 2 = 1 /\ lo >= 128 THEN 128 ELSE 0
    IN  Ok(hi + lo - shared)

midi_Toggle_from(value) ==
    CASE value = 0 -> Ok("Off")
      [] value = 1 -> Ok("On")
      [] OTHER -> Panic("Unknown value for toggle")

midi_Knob_from(raw) == [control |-> At(raw, 0), min |-> At(raw, 1), max |-> At(raw, 2)]

midi_PadMode_from(value) ==
    CASE value = 0 -> Ok("Momentary")
      [] value = 1 -> Ok("Toggle")
      [] OTHER -> Panic("Unknown padmode value")

midi_Pad_from(value) ==
    LET mode == midi_PadMode_from(At(value, 3))
    IN  IF mode.tag # "Ok" THEN mode
        ELSE Ok([note |-> At(value, 0), program |-> At(value, 1),
                 control |-> At(value, 2), mode |-> mode.v])

midi_ClockSource_from(value) ==
    CASE value = 0 -> Ok("Internal")
      [] value = 1 -> Ok("External")
      [] OTHER -> Panic("Unknown clock source value")

midi_ArpeggiatorTimeDivision_from(value) ==
    IF value <= 7 THEN Ok(ArpeggiatorTimeDivisionNames[value + 1])
    ELSE Panic("Invalid arpeggiator time division")

midi_ArpeggiatorMode_from(value) ==
    IF value <= 5 THEN Ok(ArpeggiatorModeNames[value + 1])
    ELSE Panic("Invalid arpeggiator mode")

midi_Swing_from(value) ==
    IF value <= 5 THEN Ok(SwingNames[value + 1])
    ELSE Panic("Invalid swing value")

midi_Joystick_from(bytes) ==
    CASE At(bytes, 0) = 0 -> Ok(<<"Pitchbend">>)
      [] At(bytes, 0) = 1 -> Ok(<<"ControlChannel", At(bytes, 1)>>)
      [] At(bytes, 0) = 2 -> Ok(<<"SplitControlChannels", At(bytes, 1), At(bytes, 2)>>)
      [] OTHER -> Panic("Invalid joystick mode")

midi_parse_knobs(bytes) ==
    IF Len(bytes) # 8 * 3
    THEN Panic("trying to parse knobs with unexpected length")
    ELSE Ok([i \in 1..8 |-> midi_Knob_from(Slice(bytes, (i - 1) * 3, (i - 1) * 3 + 3))])

midi_parse_pads(bytes) ==
    IF Len(bytes) # 16 * 4
    THEN Panic("trying to parse pads with unexpected length")
    ELSE LET pads == [i \in 1..16 |-> midi_Pad_from(Slice(bytes, (i - 1) * 4, (i - 1) * 4 + 4))]
             bad  == {i \in 1..16 : pads[i].tag # "Ok"}
         IN  IF bad # {} THEN pads[Min(bad)]
             ELSE Ok([i \in 1..16 |-> pads[i].v])

midi_MpkBankDescriptor_from(bytes) ==
    IF Len(bytes) # 108
    THEN Panic("Unexpected length for bank descriptor")
    ELSE LET f == << midi_Toggle_from(At(bytes, 3)),
                     midi_ArpeggiatorMode_from(At(bytes, 4)),
                     midi_ArpeggiatorTimeDivision_from(At(bytes, 5)),
                     midi_ClockSource_from(At(bytes, 6)),
                     midi_Toggle_from(At(bytes, 7)),
                     midi_Swing_from(At(bytes, 8)),
                     midi_U14BE_from_device(Slice(bytes, 10, 12)),
                     midi_Joystick_from(Slice(bytes, 13, 16)),
                     midi_Joystick_from(Slice(bytes, 16, 19)),
                     midi_parse_pads(Slice(bytes, 19, 83)),
                     midi_parse_knobs(Slice(bytes, 83, 107)) >>
             bad == {i \in 1..Len(f) : f[i].tag # "Ok"}
         IN  IF bad # {} THEN f[Min(bad)]
             ELSE Ok([pad_midi_channel |-> At(bytes, 0),
                      keybed_channel |-> At(bytes, 1),
                      octave |-> At(bytes, 2),
                      arpeggiator |-> f[1].v,
                      arpeggiator_mode |-> f[2].v,
                      arpeggiator_time_division |-> f[3].v,
                      clock_source |-> f[4].v,
                      latch |-> f[5].v,
                      swing |-> f[6].v,
                      tempo_taps |-> At(bytes, 9),
                      tempo |-> f[7].v,
                      arpeggiator_octave |-> At(bytes, 12),
                      joystick_x |-> f[8].v,
                      joystick_y |-> f[9].v,
                      pads |-> f[10].v,
                      knobs |-> f[11].v,
                      transpose |-> At(bytes, 107)])

-----------------------------------------------------------------------------
(* mpkmidi.rs: the message decoder.  A result is Some(message), None (with  *)
(* the diagnostic the code prints before returning it) or a panic.          *)

\* the request with the signature of the bank report (0x67 for 0x66)
sysex_get_bank_report_signature(id) ==
    <<MIDI_SYSEX, SYSEX_AKAI, 0, 38, 103, 0, 1, id, MIDI_SYSEX_END>>

sysex_get_bank(id) ==
    <<MIDI_SYSEX, SYSEX_AKAI, 0, 38, 102, 0, 1, id, MIDI_SYSEX_END>>

u14le_to_u16(x, offset) == (At(x, offset) + At(x, offset + 1) * 128) % 65536

starts_with(s, prefix) ==
    Len(s) >= Len(prefix) /\ SubSeq(s, 1, Len(prefix)) = prefix

\* parse_sysex with the manufacturer looked at before the framing
parse_sysex_manufacturer_first(bytes) ==
    IF Len(bytes) >= 2 /\ At(bytes, 1) # SYSEX_AKAI THEN None("non-AKAI")
    ELSE IF Len(bytes) < 3 THEN None("runt")
    ELSE IF bytes[Len(bytes)] # MIDI_SYSEX_END THEN None("malformed")
    ELSE LET payload == Slice(bytes, 2, Len(bytes) - 1)
         IN  IF starts_with(payload, SYSEX_MPK_BANK)
             THEN IF Len(payload) <= Len(SYSEX_MPK_BANK)
                  THEN Panic("index out of bounds")
                  ELSE LET d == midi_MpkBankDescriptor_from(
                                    Slice(payload, Len(SYSEX_MPK_BANK) + 1, Len(payload)))
                       IN  IF d.tag # "Ok" THEN d
                           ELSE Some(<<"Bank", At(payload, Len(SYSEX_MPK_BANK)), d.v>>)
             ELSE None("unknown AKAI sysex message")

\* parse_sysex without the manufacturer check
parse_sysex_any_manufacturer(bytes) ==
    IF Len(bytes) < 3 THEN None("runt")
    ELSE IF bytes[Len(bytes)] # MIDI_SYSEX_END THEN None("malformed")
    ELSE LET payload == Slice(bytes, 2, Len(bytes) - 1)
         IN  IF starts_with(payload, SYSEX_MPK_BANK)
             THEN IF Len(payload) <= Len(SYSEX_MPK_BANK)
                  THEN Panic("index out of bounds")
                  ELSE LET d == midi_MpkBankDescriptor_from(
                                    Slice(payload, Len(SYSEX_MPK_BANK) + 1, Len(payload)))
                       IN  IF d.tag # "Ok" THEN d
                           ELSE Some(<<"Bank", At(payload, Len(SYSEX_MPK_BANK)), d.v>>)
             ELSE None("unknown AKAI sysex message")

parse_sysex(bytes) ==
    IF Len(bytes) < 3 THEN None("runt")
    ELSE IF bytes[Len(bytes)] # MIDI_SYSEX_END THEN None("malformed")
    ELSE IF At(bytes, 1) # SYSEX_AKAI THEN None("non-AKAI")
    ELSE LET payload == Slice(bytes, 2, Len(bytes) - 1)
         IN  IF starts_with(payload, SYSEX_MPK_BANK)
             THEN IF Len(payload) <= Len(SYSEX_MPK_BANK)
                  THEN Panic("index out of bounds")
                  ELSE LET d == midi_MpkBankDescriptor_from(
                                    Slice(payload, Len(SYSEX_MPK_BANK) + 1, Len(payload)))
                       IN  IF d.tag # "Ok" THEN d
                           ELSE Some(<<"Bank", At(payload, Len(SYSEX_MPK_BANK)), d.v>>)
             ELSE None("unknown AKAI sysex message")

\* parse_channel_msg with the pitch bend value read most significant byte first
parse_channel_msg_pitch_bend_be(bytes) ==
    LET channel == At(bytes, 0) % 16
        kind    == (At(bytes, 0) \div 16) * 16
    IN  CASE kind \in {MIDI_NOTE_OFF, MIDI_NOTE_ON, MIDI_CONTROL_CHANGE} ->
                IF Len(bytes) < 3 THEN Panic("index out of bounds")
                ELSE Some(<< CASE kind = MIDI_NOTE_OFF -> "NoteOff"
                               [] kind = MIDI_NOTE_ON -> "NoteOn"
                               [] OTHER -> "ControlChange",
                             channel, At(bytes, 1), At(bytes, 2) >>)
          [] kind = MIDI_POLYPHONIC_PRESSURE -> None("")
          [] kind = MIDI_PROGRAM_CHANGE ->
                IF Len(bytes) < 2 THEN Panic("index out of bounds")
                ELSE Some(<<"ProgramChange", channel, At(bytes, 1)>>)
          [] kind = MIDI_CHANNEL_PRESSURE -> None("")
          [] kind = MIDI_PITCH_BEND ->
                IF Len(bytes) < 3 THEN Panic("index out of bounds")
                ELSE Some(<<"PitchBend", channel, (At(bytes, 1) * 128 + At(bytes, 2)) % 65536>>)
          [] OTHER -> None("")

\* bytes[1] and bytes[2] are read without a length check
parse_channel_msg(bytes) ==
    LET channel == At(bytes, 0) % 16
        kind    == (At(bytes, 0) \div 16) * 16
    IN  CASE kind \in {MIDI_NOTE_OFF, MIDI_NOTE_ON, MIDI_CONTROL_CHANGE} ->
                IF Len(bytes) < 3 THEN Panic("index out of bounds")
                ELSE Some(<< CASE kind = MIDI_NOTE_OFF -> "NoteOff"
                               [] kind = MIDI_NOTE_ON -> "NoteOn"
                               [] OTHER -> "ControlChange",
                             channel, At(bytes, 1), At(bytes, 2) >>)
          [] kind = MIDI_POLYPHONIC_PRESSURE -> None("")
          [] kind = MIDI_PROGRAM_CHANGE ->
                IF Len(bytes) < 2 THEN Panic("index out of bounds")
                ELSE Some(<<"ProgramChange", channel, At(bytes, 1)>>)
          [] kind = MIDI_CHANNEL_PRESSURE -> None("")
          [] kind = MIDI_PITCH_BEND ->
                IF Len(bytes) < 3 THEN Panic("index out of bounds")
                ELSE Some(<<"PitchBend", channel, u14le_to_u16(bytes, 1)>>)
          [] OTHER -> None("")

parse_msg(bytes) ==
    IF Len(bytes) = 0 THEN Panic("ERROR: received message with length 0")
    ELSE IF At(bytes, 0) < 127 THEN Panic("ERROR: received message with MSB unset (<127)")
    ELSE IF (At(bytes, 0) \div 16) * 16 # 240 THEN parse_channel_msg(bytes)
    ELSE CASE At(bytes, 0) = MIDI_SYSEX -> parse_sysex(bytes)
           [] At(bytes, 0) = MIDI_RESET -> Some(<<"Reset">>)
           [] OTHER -> Some(<<"Unknown", bytes>>)

-----------------------------------------------------------------------------
(* Inputs of the codec runs *)

NoValue == [tag |-> "Unset"]

\* <<offset, byte>>: fields of the wire layout set to in-domain and
\* out-of-domain values
WirePatch ==
    { <<0, 255>>, <<2, 4>>,
      <<3, 1>>, <<3, 2>>, <<4, 5>>, <<4, 6>>, <<5, 7>>, <<5, 8>>,
      <<6, 1>>, <<6, 2>>, <<7, 2>>, <<8, 5>>, <<8, 6>>,
      <<10, 127>>, <<10, 128>>, <<11, 127>>, <<11, 128>>,
      <<13, 1>>, <<13, 2>>, <<13, 3>>, <<14, 5>>, <<15, 9>>,
      <<16, 3>>, <<17, 4>>,
      <<1, 255>>, <<2, 128>>, <<2, 200>>, <<19, 132>>, <<19, 255>>, <<107, 130>>,
      <<19, 60>>, <<20, 7>>, <<21, 8>>, <<22, 1>>, <<22, 2>>,
      <<82, 2>>, <<83, 10>>, <<107, 12>> }

RECURSIVE PatchSets(_, _)
PatchSets(S, k) ==
    IF k = 0 THEN {{}}
    ELSE LET prev == PatchSets(S, k - 1)
         IN  prev \cup {P \cup {p} : P \in prev, p \in S}

\* at most one value per offset
WirePatchSets ==
    {P \in PatchSets(WirePatch, MaxPatches) : \A p, q \in P : p[1] = q[1] => p = q}

Patched(P) ==
    [i \in 1..MPK_BANK_DESCRIPTOR_LENGTH |->
        IF \E p \in P : p[1] = i - 1 THEN (CHOOSE p \in P : p[1] = i - 1)[2] ELSE 0]

Zeros(n) == [i \in 1..n |-> 0]

\* 108-byte buffers, the all-zero buffer of every other length up to
\* MaxExtraLen bytes too long, and a buffer with a changed field one byte
\* short and one byte long
WireInputs ==
    {Patched(P) : P \in WirePatchSets}
        \cup {Zeros(n) : n \in 0..(MPK_BANK_DESCRIPTOR_LENGTH + MaxExtraLen)}
        \cup {Patched({<<20, 7>>}) \o <<0>>,
              SubSeq(Patched({<<20, 7>>}), 1, MPK_BANK_DESCRIPTOR_LENGTH - 1)}

\* inputs of parse_pads: every length up to MaxExtraLen bytes too long, and
\* 64 bytes with a valid and an invalid mode byte
PadInputs ==
    {Zeros(n) : n \in 0..(16 * 4 + MaxExtraLen)}
        \cup {[i \in 1..(16 * 4) |-> IF i = 8 THEN m ELSE i] : m \in {1, 2}}

\* inputs of parse_knobs: every length up to MaxExtraLen bytes too long
KnobInputs ==
    {Zeros(n) : n \in 0..(8 * 3 + MaxExtraLen)}
        \cup {[i \in 1..(8 * 3) |-> i]}

BaseDescriptor ==
    [pad_midi_channel |-> 0, keybed_channel |-> 0, octave |-> 0,
     arpeggiator |-> "Off", arpeggiator_mode |-> "Up",
     arpeggiator_time_division |-> "_4", clock_source |-> "Internal",
     latch |-> "Off", swing |-> "_50", tempo_taps |-> 0, tempo |-> 0,
     arpeggiator_octave |-> 0,
     joystick_x |-> <<"Pitchbend">>, joystick_y |-> <<"Pitchbend">>,
     pads |-> [i \in 1..16 |-> [note |-> 0, program |-> 0, control |-> 0,
                                mode |-> "Momentary"]],
     knobs |-> [i \in 1..8 |-> [control |-> 0, min |-> 0, max |-> 0]],
     transpose |-> 0]

\* the changes a settings document can make to the fields of a descriptor
\* (serde accepts any u8, any u16 tempo and any variant name)
DescPatchIds == 1..16

DescPatched(d, id) ==
    CASE id = 1 -> [d EXCEPT !.tempo = 16383]
      [] id = 2 -> [d EXCEPT !.tempo = 16384]
      [] id = 3 -> [d EXCEPT !.joystick_x = <<"ControlChannel", 5>>]
      [] id = 4 -> [d EXCEPT !.joystick_y = <<"SplitControlChannels", 4, 9>>]
      [] id = 5 -> [d EXCEPT !.pads[1].program = 7]
      [] id = 6 -> [d EXCEPT !.pads[1].control = 8]
      [] id = 7 -> [d EXCEPT !.pads[1].mode = "Toggle"]
      [] id = 8 -> [d EXCEPT !.pads[16].note = 127]
      [] id = 9 -> [d EXCEPT !.knobs[1].max = 127]
      [] id = 10 -> [d EXCEPT !.transpose = 12]
      [] id = 11 -> [d EXCEPT !.arpeggiator = "On"]
      [] id = 12 -> [d EXCEPT !.swing = "_64"]
      [] id = 13 -> [d EXCEPT !.arpeggiator_time_division = "_32T"]
      [] id = 14 -> [d EXCEPT !.clock_source = "External"]
      [] id = 15 -> [d EXCEPT !.octave = 255]
      [] id = 16 -> [d EXCEPT !.arpeggiator_mode = "Random"]

RECURSIVE DescPatchedAll(_, _)
DescPatchedAll(d, ids) ==
    IF ids = {} THEN d
    ELSE LET id == Min(ids) IN DescPatchedAll(DescPatched(d, id), ids \ {id})

DescInputs ==
    {DescPatchedAll(BaseDescriptor, ids) : ids \in PatchSets(DescPatchIds, MaxPatches)}

-----------------------------------------------------------------------------
(* Codec runs: bytes -> from -> into_bytes, and descriptor -> into_bytes -> *)
(* from                                                                     *)

CorrIdle ==
    /\ pc = "idle" /\ bank = 0 /\ reqAt = 0 /\ chan = <<>> /\ txAlive = FALSE
    /\ inOpen = FALSE /\ outOpen = FALSE
    /\ sent = <<>> /\ received = <<>> /\ log = <<>>
    /\ result = NoValue

ScalarIdle == spc = "off" /\ sin = NoValue /\ sout = NoValue /\ sback = NoValue

InitCodec ==
    /\ \/ cpc = "wire" /\ buf \in WireInputs /\ din = NoValue
       \/ cpc = "pads" /\ buf \in PadInputs /\ din = NoValue
       \/ cpc = "knobs" /\ buf \in KnobInputs /\ din = NoValue
       \/ cpc = "text" /\ buf = <<>> /\ din \in DescInputs
    /\ dec = NoValue /\ enc = NoValue /\ msg = NoValue /\ shown = NoValue
    /\ doc = NoValue /\ loaded = NoValue
    /\ CorrIdle /\ ScalarIdle

\* MpkBankDescriptor::from(bytes) on bytes from the device
Decode ==
    /\ cpc = "wire"
    /\ dec' = MpkBankDescriptor_from(buf)
    /\ cpc' = "decoded"
    /\ UNCHANGED <<buf, din, enc, msg, shown, doc, loaded>>
    /\ UNCHANGED <<corrVars, scalarVars>>

\* into_bytes on the decoded descriptor
Encode ==
    /\ cpc = "decoded" /\ dec.tag = "Ok"
    /\ enc' = MpkBankDescriptor_into_bytes(dec.v)
    /\ cpc' = "reencoded"
    /\ UNCHANGED <<buf, din, dec, msg, shown, doc, loaded>>
    /\ UNCHANGED <<corrVars, scalarVars>>

\* into_bytes on a descriptor read from a settings document
EncodeText ==
    /\ cpc = "text"
    /\ enc' = MpkBankDescriptor_into_bytes(din)
    /\ cpc' = "encoded"
    /\ UNCHANGED <<buf, din, dec, msg, shown, doc, loaded>>
    /\ UNCHANGED <<corrVars, scalarVars>>

\* from on the bytes into_bytes produced
DecodeBack ==
    /\ cpc = "encoded" /\ enc.tag = "Ok"
    /\ dec' = MpkBankDescriptor_from(enc.v)
    /\ cpc' = "redecoded"
    /\ UNCHANGED <<buf, din, enc, msg, shown, doc, loaded>>
    /\ UNCHANGED <<corrVars, scalarVars>>

\* show_bank: println!("{}", bank_desc) on the decoded descriptor
Display(overflow_checks) ==
    /\ cpc = "decoded" /\ dec.tag = "Ok"
    /\ shown' = MpkBankDescriptor_fmt(dec.v, overflow_checks)
    /\ cpc' = "shown"
    /\ UNCHANGED <<buf, din, dec, enc, msg, doc, loaded>>
    /\ UNCHANGED <<corrVars, scalarVars>>

\* dump_bank_yaml: the decoded descriptor written as a settings document
DumpYaml ==
    /\ cpc = "decoded" /\ dec.tag = "Ok"
    /\ doc' = MpkBankDescriptor_serialize(dec.v)
    /\ cpc' = "dumped"
    /\ UNCHANGED <<buf, din, dec, enc, msg, shown, loaded>>
    /\ UNCHANGED <<corrVars, scalarVars>>

\* cmd_read_yaml / cmd_send_yaml: the document read back
LoadYaml(overflow_checks) ==
    /\ cpc = "dumped"
    /\ loaded' = MpkBankDescriptor_deserialize(doc, overflow_checks)
    /\ cpc' = "loaded"
    /\ UNCHANGED <<buf, din, dec, enc, msg, shown, doc>>
    /\ UNCHANGED <<corrVars, scalarVars>>

\* into_bytes on the descriptor read from the document
EncodeLoaded ==
    /\ cpc = "loaded" /\ loaded.tag = "Ok"
    /\ enc' = MpkBankDescriptor_into_bytes(loaded.v)
    /\ cpc' = "loaded_encoded"
    /\ UNCHANGED <<buf, din, dec, msg, shown, doc, loaded>>
    /\ UNCHANGED <<corrVars, scalarVars>>

\* parse_pads(bytes) on its own
ParsePads ==
    /\ cpc = "pads"
    /\ dec' = parse_pads(buf)
    /\ cpc' = "pads_parsed"
    /\ UNCHANGED <<buf, din, enc, msg, shown, doc, loaded>>
    /\ UNCHANGED <<corrVars, scalarVars>>

\* parse_knobs(bytes) on its own
ParseKnobs ==
    /\ cpc = "knobs"
    /\ dec' = parse_knobs(buf)
    /\ cpc' = "knobs_parsed"
    /\ UNCHANGED <<buf, din, enc, msg, shown, doc, loaded>>
    /\ UNCHANGED <<corrVars, scalarVars>>

NextCodec ==
    \/ Decode \/ Encode \/ EncodeText \/ DecodeBack \/ ParsePads \/ ParseKnobs
    \/ \E overflow_checks \in BOOLEAN : Display(overflow_checks)
    \/ DumpYaml
    \/ \E overflow_checks \in BOOLEAN : LoadYaml(overflow_checks)
    \/ EncodeLoaded

SpecCodec == InitCodec /\ [][NextCodec]_vars

-----------------------------------------------------------------------------
(* Decoder runs: parse_msg applied to one frame *)

\* bytes on both sides of every comparison parse_msg and parse_sysex make
SampleBytes == {0, 1, 71, 80, 126, 127, 128, 144, 160, 192, 224, 240, 247, 255}

RECURSIVE FramesUpTo(_)
FramesUpTo(n) ==
    IF n = 0 THEN {<<>>}
    ELSE LET prev == FramesUpTo(n - 1)
         IN  prev \cup {Append(f, b) : f \in {g \in prev : Len(g) = n - 1}, b \in SampleBytes}

\* a bank report as the device sends it: F0 <manufacturer> 00 26 67 00 6D
\* <bank> <descriptor> F7
BankFrame(manufacturer, index, body) ==
    <<MIDI_SYSEX, manufacturer>> \o SYSEX_MPK_BANK \o <<index>> \o body
        \o <<MIDI_SYSEX_END>>

BankBodies ==
    {Patched(P) : P \in PatchSets(WirePatch, 1)}
        \cup {[i \in 1..n |-> 0] : n \in {0, MPK_BANK_DESCRIPTOR_LENGTH - 1,
                                          MPK_BANK_DESCRIPTOR_LENGTH + 1}}

FrameInputs ==
    FramesUpTo(MaxShortLen)
        \cup {<<b>> : b \in Byte}
        \cup {<<b, 1, 2>> : b \in Byte}
        \cup {BankFrame(m, i, body) : m \in {SYSEX_AKAI, 0}, i \in {0, 1}, body \in BankBodies}
        \cup {<<MIDI_SYSEX, m>> \o SYSEX_MPK_BANK \o tail :
                 m \in {SYSEX_AKAI, 0},
                 tail \in {<<>>, <<MIDI_SYSEX_END>>, <<1>>, <<1, MIDI_SYSEX_END>>}}

InitParse ==
    /\ cpc = "frame" /\ buf \in FrameInputs
    /\ din = NoValue /\ dec = NoValue /\ enc = NoValue /\ msg = NoValue
    /\ shown = NoValue
    /\ doc = NoValue /\ loaded = NoValue
    /\ CorrIdle /\ ScalarIdle

ParseMsg ==
    /\ cpc = "frame"
    /\ msg' = parse_msg(buf)
    /\ cpc' = "parsed"
    /\ UNCHANGED <<buf, din, dec, enc, shown, doc, loaded>>
    /\ UNCHANGED <<corrVars, scalarVars>>

NextParse == ParseMsg

SpecParse == InitParse /\ [][NextParse]_vars

\* what a failed decode reports: the panic message, or the line printed
\* before None is returned
Diagnostic(r) ==
    CASE r.tag = "Panic" -> r.why
      [] r.tag = "None" -> r.diag
      [] OTHER -> ""

\* the diagnostics of the error kind MalformedFrame (runt frame, bad end marker)
MalformedFrame == {"runt", "malformed"}
NonVendorFrame == "non-AKAI"

-----------------------------------------------------------------------------
(* Claims on the bank descriptor codec (SpecCodec) *)

InDomain(b) ==
    /\ Len(b) = MPK_BANK_DESCRIPTOR_LENGTH
    /\ At(b, 3) <= 1 /\ At(b, 7) <= 1
    /\ At(b, 4) <= 5 /\ At(b, 5) <= 7 /\ At(b, 6) <= 1 /\ At(b, 8) <= 5
    /\ At(b, 10) < 128 /\ At(b, 11) < 128
    /\ At(b, 13) <= 2 /\ At(b, 16) <= 2
    /\ \A i \in 0..15 : At(b, 22 + 4 * i) <= 1

PadBytes(b, i) == Slice(b, 19 + 4 * i, 19 + 4 * i + 4)

\* C4: for every in-domain 108-byte buffer b, into_bytes(from(b)) = b.
C4_WireRoundTrip ==
    (cpc = "reencoded" /\ InDomain(buf)) => (enc.tag = "Ok" /\ enc.v = buf)

\* C5: for every constructible descriptor d, into_bytes(d) succeeds and
\* from(into_bytes(d)) equals d in every field.
C5_DescriptorRoundTrip ==
    /\ cpc = "encoded" => enc.tag = "Ok"
    /\ cpc = "redecoded" => (dec.tag = "Ok" /\ dec.v = din)

\* C6: a pad's four bytes are written in the order they are read: every pad
\* survives to_bytes then from, and every 4 wire bytes with mode in {0,1}
\* survive from then to_bytes.
C6_PadWireOrder ==
    /\ (cpc = "redecoded" /\ dec.tag = "Ok") =>
           \A i \in 1..16 : dec.v.pads[i] = din.pads[i]
    /\ (cpc = "reencoded" /\ enc.tag = "Ok") =>
           \A i \in 0..15 : PadBytes(enc.v, i) = PadBytes(buf, i)

IsLengthMismatch(r, kind, n) == r = Err(kind, n)

\* C19: MpkBankDescriptor::from fails with the length error, and produces no
\* descriptor, for every input whose length is not 108; parse_pads fails with
\* its length error unless given exactly 64 bytes, parse_knobs unless given
\* exactly 24.
C19_LengthMismatch ==
    /\ cpc = "decoded" =>
           (Len(buf) # 108
                <=> IsLengthMismatch(dec, "BankDescriptionUnexpectedLength", Len(buf)))
    /\ cpc = "pads_parsed" =>
           (Len(buf) # 64
                <=> IsLengthMismatch(dec, "BankPadsUnexpectedLength", Len(buf)))
    /\ cpc = "knobs_parsed" =>
           /\ Len(buf) # 24
                <=> IsLengthMismatch(dec, "BankKnobsUnexpectedLength", Len(buf))
           /\ Len(buf) = 24 => dec.tag = "Ok"

C19_Witness ==
    /\ cpc = "decoded" /\ Len(buf) = 109 /\ At(buf, 20) = 7
    /\ dec = Err("BankDescriptionUnexpectedLength", 109)

\* the offsets of the fields whose decode can fail, the tempo by its first byte
CheckedOffsets == {3, 4, 5, 6, 7, 8, 10, 13, 16} \cup {22 + 4 * i : i \in 0..15}

FieldFails(b, o) ==
    CASE o \in {3, 6, 7} -> At(b, o) > 1
      [] o \in {4, 8} -> At(b, o) > 5
      [] o = 5 -> At(b, o) > 7
      [] o = 10 -> At(b, 10) >= 128 \/ At(b, 11) >= 128
      [] o \in {13, 16} -> At(b, o) > 2
      [] OTHER -> At(b, o) > 1

\* the error of the field at offset o, with the raw value of that field
FieldError(b, o) ==
    CASE o \in {3, 7} -> Err("ToggleUnknown", At(b, o))
      [] o = 4 -> Err("ArpeggiatorModeInvalid", At(b, o))
      [] o = 5 -> Err("ArpeggiatorTimeDivisionInvalid", At(b, o))
      [] o = 6 -> Err("ClockSourceUnknown", At(b, o))
      [] o = 8 -> Err("SwingInvalid", At(b, o))
      [] o = 10 -> Err("U14BEMsbSet", Slice(b, 10, 12))
      [] o \in {13, 16} -> Err("JoystickModeInvalid", At(b, o))
      [] OTHER -> Err("PadmodeUnknown", At(b, o))

\* C20: from on a 108-byte buffer succeeds exactly when every checked field
\* is in its domain; when it fails, the error is that of the first failing
\* field in byte order and carries the raw value of that field (for a
\* joystick, the invalid tag byte).
C20_FirstFailingField ==
    (cpc = "decoded" /\ Len(buf) = 108) =>
        LET failing == {o \in CheckedOffsets : FieldFails(buf, o)}
        IN  /\ dec.tag = "Ok" <=> InDomain(buf)
            /\ InDomain(buf) <=> failing = {}
            /\ failing # {} => dec = FieldError(buf, Min(failing))

\* C23: for every descriptor d decoded from 108 in-domain bytes, writing d
\* as a settings document and reading it back gives a descriptor whose
\* into_bytes equals into_bytes(d); every pad note and the tempo survive
\* unchanged.
C23_TextRoundTrip ==
    /\ (cpc = "loaded" /\ InDomain(buf)) =>
           /\ loaded.tag = "Ok"
           /\ \A i \in 1..16 : loaded.v.pads[i].note = At(buf, 19 + 4 * (i - 1))
           /\ loaded.v.tempo = dec.v.tempo
    /\ (cpc = "loaded_encoded" /\ InDomain(buf)) =>
           enc = MpkBankDescriptor_into_bytes(dec.v)

\* C25: for every stored byte value of a decoded descriptor, Display shows
\* the pad and keybed channel as stored value + 1, the octave as stored
\* value - 4 and the transpose as stored value - 12, with no overflow or
\* wrap-around.
C25_DisplayOffsets ==
    cpc = "shown" =>
        /\ shown.tag = "Ok"
        /\ shown.v.pad_midi_channel = format_int(At(buf, 0) + 1)
        /\ shown.v.keybed_channel = format_int(At(buf, 1) + 1)
        /\ shown.v.octave = format_int(At(buf, 2) - 4)
        /\ shown.v.transpose = format_int(At(buf, 107) - 12)

-----------------------------------------------------------------------------
(* Claims on the message decoder (SpecParse) *)

\* C7: parse_msg returns a message or an error value for every frame and
\* never aborts.
C7_NeverAborts == cpc = "parsed" => msg.tag # "Panic"

\* C8: the empty frame fails as an empty message, and every frame whose first
\* byte is below 0x80 fails as MSB-unset, with no channel/system
\* classification.
C8_EmptyAndMsbUnset ==
    cpc = "parsed" =>
        /\ buf = <<>> =>
               (msg.tag # "Some"
                    /\ Diagnostic(msg) = "ERROR: received message with length 0")
        /\ (buf # <<>> /\ At(buf, 0) < 128) =>
               (msg.tag # "Some"
                    /\ Diagnostic(msg) = "ERROR: received message with MSB unset (<127)")

IsRuntOrUnterminated(f) ==
    /\ Len(f) >= 1 /\ At(f, 0) = MIDI_SYSEX
    /\ (Len(f) < 3 \/ f[Len(f)] # MIDI_SYSEX_END)

\* C9: a frame starting with F0 that is shorter than 3 bytes or does not end
\* with F7 fails as MalformedFrame, whatever its manufacturer byte is.
C9_FramingBeforeManufacturer ==
    (cpc = "parsed" /\ IsRuntOrUnterminated(buf)) =>
        (msg.tag = "None" /\ msg.diag \in MalformedFrame)

C9_Witness ==
    /\ cpc = "parsed" /\ IsRuntOrUnterminated(buf)
    /\ Len(buf) >= 3 /\ At(buf, 1) # SYSEX_AKAI
    /\ msg = None("malformed")

IsWellFramedNonVendor(f) ==
    /\ Len(f) >= 3 /\ At(f, 0) = MIDI_SYSEX /\ f[Len(f)] = MIDI_SYSEX_END
    /\ At(f, 1) # SYSEX_AKAI

\* C10: a well-framed SysEx frame whose second byte is not 0x47 fails as
\* NonVendorFrame and never yields a Bank message.
C10_NonVendorRejected ==
    (cpc = "parsed" /\ IsWellFramedNonVendor(buf)) =>
        (msg.tag = "None" /\ msg.diag = NonVendorFrame)

C10_Witness ==
    /\ cpc = "parsed" /\ IsWellFramedNonVendor(buf)
    /\ starts_with(Slice(buf, 2, Len(buf) - 1), SYSEX_MPK_BANK)
    /\ Len(buf) = 2 + Len(SYSEX_MPK_BANK) + 1 + MPK_BANK_DESCRIPTOR_LENGTH + 1
    /\ msg = None(NonVendorFrame)

\* C15: U14BE::from_device fails exactly when one of the two wire bytes has
\* its high bit set and otherwise returns (b0 << 7) | b1, in 0..16383, in
\* every U14 decoder a received bank descriptor goes through: a frame decoded
\* to Bank has both tempo bytes below 0x80 and its tempo is that value.
C15_U14FromWire ==
    (cpc = "parsed" /\ msg.tag = "Some" /\ msg.msg[1] = "Bank") =>
        LET body == Slice(buf, 2 + Len(SYSEX_MPK_BANK) + 1, Len(buf) - 1)
        IN  /\ At(body, 10) < 128 /\ At(body, 11) < 128
            /\ msg.msg[3].tempo = At(body, 10) * 128 + At(body, 11)
            /\ msg.msg[3].tempo \in 0..16383

\* C21: for a frame whose first byte is 0x80 or more with high nibble other
\* than 0xF, the low nibble is the channel and the high nibble selects the
\* message: 0x8 NoteOff(ch, d1, d2), 0x9 NoteOn(ch, d1, d2), 0xB
\* ControlChange(ch, d1, d2), 0xC ProgramChange(ch, d1) from one data byte,
\* 0xE PitchBend(ch, d1 + (d2 << 7)); 0xA and 0xD give the unparsed result.
C21_ChannelMessages ==
    (cpc = "parsed" /\ Len(buf) >= 1 /\ At(buf, 0) >= 128 /\ At(buf, 0) < 240) =>
        LET ch == At(buf, 0) % 16
            hi == At(buf, 0) \div 16
        IN  /\ (hi = 8 /\ Len(buf) >= 3)
                   => msg = Some(<<"NoteOff", ch, At(buf, 1), At(buf, 2)>>)
            /\ (hi = 9 /\ Len(buf) >= 3)
                   => msg = Some(<<"NoteOn", ch, At(buf, 1), At(buf, 2)>>)
            /\ (hi = 11 /\ Len(buf) >= 3)
                   => msg = Some(<<"ControlChange", ch, At(buf, 1), At(buf, 2)>>)
            /\ (hi = 12 /\ Len(buf) >= 2)
                   => msg = Some(<<"ProgramChange", ch, At(buf, 1)>>)
            /\ (hi = 14 /\ Len(buf) >= 3)
                   => /\ msg = Some(<<"PitchBend", ch, At(buf, 1) + At(buf, 2) * 128>>)
                      /\ (At(buf, 1) < 128 /\ At(buf, 2) < 128)
                             => msg.msg[3] \in 0..16383
            /\ hi \in {10, 13} => msg.tag = "None"

C21_Witness ==
    /\ cpc = "parsed" /\ buf = <<225, 1, 2>>
    /\ msg = Some(<<"PitchBend", 1, 257>>)

IsVendorFrame(f) ==
    /\ Len(f) >= 3 /\ At(f, 0) = MIDI_SYSEX /\ f[Len(f)] = MIDI_SYSEX_END
    /\ At(f, 1) = SYSEX_AKAI

VendorPayload(f) == Slice(f, 2, Len(f) - 1)

UnknownVendorMessage == "unknown AKAI sysex message"

\* C11: for a vendor frame F0 47 <payload> F7 whose payload begins with the
\* bank-report signature, the result is Bank(index, descriptor) when exactly
\* 108 in-domain bytes follow the index and an error value otherwise; without
\* the signature the result is UnknownVendorMessage.
C11_VendorFrame ==
    (cpc = "parsed" /\ IsVendorFrame(buf)) =>
        LET payload == VendorPayload(buf)
            n == Len(SYSEX_MPK_BANK)
            body == Slice(payload, n + 1, Len(payload))
        IN  IF starts_with(payload, SYSEX_MPK_BANK)
            THEN IF Len(payload) > n /\ InDomain(body)
                 THEN msg = Some(<<"Bank", At(payload, n),
                                   MpkBankDescriptor_from(body).v>>)
                 ELSE msg.tag = "None"
            ELSE msg = None(UnknownVendorMessage)

\* C26: for a bank-report frame carrying 108 bytes after the index, parse_msg
\* yields Bank(index, d) if and only if MpkBankDescriptor::from of the codec
\* succeeds on those bytes with a descriptor equal to d.
C26_SameAsCodec ==
    LET payload == VendorPayload(buf)
        n == Len(SYSEX_MPK_BANK)
        body == Slice(payload, n + 1, Len(payload))
        codec == MpkBankDescriptor_from(body)
    IN  (/\ cpc = "parsed" /\ IsVendorFrame(buf)
         /\ starts_with(payload, SYSEX_MPK_BANK)
         /\ Len(body) = MPK_BANK_DESCRIPTOR_LENGTH) =>
            /\ (msg.tag = "Some" /\ msg.msg[1] = "Bank") <=> codec.tag = "Ok"
            /\ codec.tag = "Ok" => msg = Some(<<"Bank", At(payload, n), codec.v>>)

-----------------------------------------------------------------------------
(* U14 runs: to_device then from_device on a host value, from_device then  *)
(* to_device on two wire bytes (u14.rs)                                     *)

CodecOff ==
    /\ cpc = "off" /\ buf = <<>> /\ din = NoValue /\ dec = NoValue
    /\ enc = NoValue /\ msg = NoValue /\ shown = NoValue
    /\ doc = NoValue /\ loaded = NoValue

\* host: u16
U16 == 0..65535

InitU14 ==
    /\ \/ spc = "host" /\ sin \in U16
       \/ spc = "wire" /\ sin \in Byte \X Byte
    /\ sout = NoValue /\ sback = NoValue
    /\ CodecOff /\ CorrIdle

ToDevice ==
    /\ spc = "host"
    /\ sout' = U14BE_to_device(sin)
    /\ spc' = "to_wire"
    /\ UNCHANGED <<sin, sback>>
    /\ UNCHANGED <<codecVars, corrVars>>

FromDeviceBack ==
    /\ spc = "to_wire" /\ sout.tag = "Ok"
    /\ sback' = U14BE_from_device(sout.v)
    /\ spc' = "host_back"
    /\ UNCHANGED <<sin, sout>>
    /\ UNCHANGED <<codecVars, corrVars>>

FromDevice ==
    /\ spc = "wire"
    /\ sout' = U14BE_from_device(sin)
    /\ spc' = "from_wire"
    /\ UNCHANGED <<sin, sback>>
    /\ UNCHANGED <<codecVars, corrVars>>

ToDeviceBack ==
    /\ spc = "from_wire" /\ sout.tag = "Ok"
    /\ sback' = U14BE_to_device(sout.v)
    /\ spc' = "wire_back"
    /\ UNCHANGED <<sin, sout>>
    /\ UNCHANGED <<codecVars, corrVars>>

NextU14 == ToDevice \/ FromDeviceBack \/ FromDevice \/ ToDeviceBack

SpecU14 == InitU14 /\ [][NextU14]_vars

\* C16: to_device fails with value-too-large exactly when the host value is
\* 0x4000 or more; otherwise it returns b0 = (h >> 7) & 0x7f, b1 = h & 0x7f,
\* both below 0x80, and from_device maps them back to h.
C16_U14ToWire ==
    /\ spc \in {"to_wire", "host_back"} =>
           IF sin >= 16384
           THEN sout.tag = "Err" /\ sout.kind = "U14BEValueTooLarge"
           ELSE /\ sout = Ok(<<(sin \div 128) % 128, sin % 128>>)
                /\ sout.v[1] < 128 /\ sout.v[2] < 128
    /\ spc = "host_back" => sback = Ok(sin)

C16_Witness ==
    /\ spc = "host_back" /\ sin = 16383
    /\ sout = Ok(<<127, 127>>) /\ sback = Ok(16383)

-----------------------------------------------------------------------------
(* Note runs: from_str then as_str on a text, as_str then from_str on a     *)
(* value (mpkbank.rs)                                                       *)

\* the spellings from_str accepts, by pitch class 0..11
Spellings ==
    << {<<"C">>},
       {<<"C", "#", "/", "D", "b">>, <<"C", "#">>, <<"D", "b">>},
       {<<"D">>},
       {<<"D", "#", "/", "E", "b">>, <<"D", "#">>, <<"E", "b">>},
       {<<"E">>},
       {<<"F">>},
       {<<"F", "#", "/", "G", "b">>, <<"F", "#">>, <<"G", "b">>},
       {<<"G">>},
       {<<"G", "#", "/", "A", "b">>, <<"G", "#">>, <<"A", "b">>},
       {<<"A">>},
       {<<"A", "#", "/", "B", "b">>, <<"A", "#">>, <<"B", "b">>},
       {<<"B">>} >>

AcceptedNames == UNION {Spellings[p] : p \in 1..12}

\* names the match rejects
OtherNames == {<<>>, <<"H">>, <<"c">>, <<"C", "b">>}

\* octaves on both sides of every limit: the i8 range, the octaves -1..9 of
\* the notes 0..127
OctaveSamples == -130..130

OctaveTexts ==
    {format_int(o) : o \in OctaveSamples}
        \cup {<<>>, <<"-">>, <<"x">>, <<"+", "5">>, <<"0", "9">>, <<"9", "x">>}

NoteTexts ==
    {name \o <<" ">> \o o : name \in AcceptedNames \cup OtherNames, o \in OctaveTexts}
        \cup {name \o o : name \in {<<"C">>, <<>>}, o \in {<<>>, <<"4">>}}
        \cup {name \o <<" ", " ">> \o o : name \in {<<"C">>}, o \in {<<"4">>}}
        \cup {name \o <<" ">> \o o \o <<" ">> : name \in {<<"C">>}, o \in {<<"4">>}}

InitNote ==
    /\ \/ spc = "text" /\ sin \in NoteTexts
       \/ spc = "value" /\ sin \in Byte
    /\ sout = NoValue /\ sback = NoValue
    /\ CodecOff /\ CorrIdle

FromStr(overflow_checks) ==
    /\ spc = "text"
    /\ sout' = Note_from_str(sin, overflow_checks)
    /\ spc' = "parsed"
    /\ UNCHANGED <<sin, sback>>
    /\ UNCHANGED <<codecVars, corrVars>>

AsStrBack ==
    /\ spc = "parsed" /\ sout.tag = "Ok"
    /\ sback' = Note_as_str(sout.v)
    /\ spc' = "reformatted"
    /\ UNCHANGED <<sin, sout>>
    /\ UNCHANGED <<codecVars, corrVars>>

AsStr ==
    /\ spc = "value"
    /\ sout' = Note_as_str(sin)
    /\ spc' = "formatted"
    /\ UNCHANGED <<sin, sback>>
    /\ UNCHANGED <<codecVars, corrVars>>

FromStrBack(overflow_checks) ==
    /\ spc = "formatted"
    /\ sback' = Note_from_str(sout, overflow_checks)
    /\ spc' = "reparsed"
    /\ UNCHANGED <<sin, sout>>
    /\ UNCHANGED <<codecVars, corrVars>>

NextNote ==
    \/ \E overflow_checks \in BOOLEAN : FromStr(overflow_checks)
    \/ AsStrBack
    \/ AsStr
    \/ \E overflow_checks \in BOOLEAN : FromStrBack(overflow_checks)

SpecNote == InitNote /\ [][NextNote]_vars

\* C17: from_str(as_str(n)) = n for every n in 0..127, and every accepted
\* spelling of a pitch class p followed by an octave o of the note range
\* parses to (o + 1) * 12 + p.
C17_NoteRoundTrip ==
    /\ (spc = "reparsed" /\ sin \in 0..127) => sback = Ok(sin)
    /\ spc = "parsed" =>
           \A p \in 0..11, o \in -1..9 : \A name \in Spellings[p + 1] :
               sin = name \o <<" ">> \o format_int(o)
                   => sout = Ok((o + 1) * 12 + p)

C17_Witness ==
    /\ spc = "reparsed" /\ sin = 127
    /\ sout = <<"G", " ", "9">> /\ sback = Ok(127)

\* C18: from_str, for an accepted note name and any octave text, returns a
\* Note with value in 0..127 or an error value: no value above 127, no
\* overflow, no abort.
C18_NoteInRange ==
    (spc = "parsed" /\ Len(str_split(sin)) = 2
        /\ str_split(sin)[1] \in AcceptedNames)
    => /\ sout.tag \in {"Ok", "Err"}
       /\ sout.tag = "Ok" => sout.v \in 0..127

-----------------------------------------------------------------------------
(* operations.rs: get_bank_desc.  The caller thread runs the body of the    *)
(* function; the transport runs the callback on its own thread, once per    *)
(* inbound frame.  The callback matches on Ok(m) of parse_msg: Some(m) of   *)
(* the decoder under mpkmidi.rs takes that branch, None the other.          *)

\* the bank indices get_bank_desc is called with: the valid 0..4 and one above
MaxBankArg == 5

\* what the device (or anything else on the bus) may send while the
\* connection is open
InboundFrames ==
    { BankFrame(SYSEX_AKAI, 1, Patched({})),
      BankFrame(SYSEX_AKAI, 1, Patched({<<20, 7>>})),
      BankFrame(SYSEX_AKAI, 2, Patched({<<107, 12>>})),
      <<MIDI_NOTE_ON, 60, 100>>,
      <<MIDI_SYSEX, SYSEX_AKAI, 1, MIDI_SYSEX_END>>,
      <<MIDI_RESET>>,
      <<>> }

InitCorr ==
    /\ cpc = "off" /\ buf = <<>> /\ din = NoValue /\ dec = NoValue
    /\ enc = NoValue /\ msg = NoValue /\ shown = NoValue
    /\ doc = NoValue /\ loaded = NoValue
    /\ CorrIdle /\ ScalarIdle

\* the index check with the bound one too high
Call_bound_5(b) ==
    /\ pc = "idle"
    /\ bank' = b
    /\ IF b > 5
       THEN /\ result' = Err("BankIndexOutOfBounds", b)
            /\ pc' = "done"
            /\ UNCHANGED txAlive
       ELSE /\ pc' = "out_connect"
            /\ txAlive' = TRUE
            /\ UNCHANGED result
    /\ UNCHANGED <<reqAt, chan, inOpen, outOpen, sent, received, log>>
    /\ UNCHANGED <<codecVars, scalarVars>>

\* lines 85-90: the index check, then the channel and the closure owning tx
Call(b) ==
    /\ pc = "idle"
    /\ bank' = b
    /\ IF b > 4
       THEN /\ result' = Err("BankIndexOutOfBounds", b)
            /\ pc' = "done"
            /\ UNCHANGED txAlive
       ELSE /\ pc' = "out_connect"
            /\ txAlive' = TRUE
            /\ UNCHANGED result
    /\ UNCHANGED <<reqAt, chan, inOpen, outOpen, sent, received, log>>
    /\ UNCHANGED <<codecVars, scalarVars>>

\* an early return drops the closure (and its Sender) and both connections
Return(r) ==
    /\ result' = r
    /\ pc' = "done"
    /\ txAlive' = FALSE
    /\ inOpen' = FALSE
    /\ outOpen' = FALSE

\* line 109
MidiOutConnectOk ==
    /\ pc = "out_connect"
    /\ pc' = "in_connect"
    /\ outOpen' = TRUE
    /\ UNCHANGED <<bank, reqAt, chan, txAlive, inOpen, sent, received, log, result>>
    /\ UNCHANGED <<codecVars, scalarVars>>

MidiOutConnectFail ==
    /\ pc = "out_connect"
    /\ Return(Err("MidiOutputPortNotFound", 0))
    /\ UNCHANGED <<bank, reqAt, chan, sent, received, log>>
    /\ UNCHANGED <<codecVars, scalarVars>>

\* line 110: from here on the transport may run the callback
MidiInConnectOk ==
    /\ pc = "in_connect"
    /\ pc' = "send"
    /\ inOpen' = TRUE
    /\ UNCHANGED <<bank, reqAt, chan, txAlive, outOpen, sent, received, log, result>>
    /\ UNCHANGED <<codecVars, scalarVars>>

MidiInConnectFail ==
    /\ pc = "in_connect"
    /\ Return(Err("MidiInputPortNotFound", 0))
    /\ UNCHANGED <<bank, reqAt, chan, sent, received, log>>
    /\ UNCHANGED <<codecVars, scalarVars>>

\* line 112
SendOk ==
    /\ pc = "send"
    /\ sent' = Append(sent, sysex_get_bank(bank))
    /\ reqAt' = Len(received)
    /\ pc' = "wait"
    /\ UNCHANGED <<bank, chan, txAlive, inOpen, outOpen, received, log, result>>
    /\ UNCHANGED <<codecVars, scalarVars>>

SendFail ==
    /\ pc = "send"
    /\ Return(Err("MidirSendError", 0))
    /\ UNCHANGED <<bank, reqAt, chan, sent, received, log>>
    /\ UNCHANGED <<codecVars, scalarVars>>

\* lines 113-118: recv_timeout returns the oldest descriptor on the channel
RecvOk ==
    /\ pc = "wait" /\ chan # <<>>
    /\ chan' = Tail(chan)
    /\ Return(Ok(Head(chan)))
    /\ UNCHANGED <<bank, reqAt, sent, received, log>>
    /\ UNCHANGED <<codecVars, scalarVars>>

\* the timeout answered by sending the request again
RecvTimeout_retry ==
    /\ pc = "wait" /\ chan = <<>> /\ txAlive
    /\ pc' = "send"
    /\ UNCHANGED <<bank, reqAt, chan, txAlive, inOpen, outOpen, sent, received,
                   log, result>>
    /\ UNCHANGED <<codecVars, scalarVars>>

\* line 113: the 10 seconds pass with the channel empty
RecvTimeout ==
    /\ pc = "wait" /\ chan = <<>> /\ txAlive
    /\ Return(Err("MpscRecvTimeoutError", "Timeout"))
    /\ UNCHANGED <<bank, reqAt, chan, sent, received, log>>
    /\ UNCHANGED <<codecVars, scalarVars>>

\* line 113: the channel is empty and its Sender is gone
RecvDisconnected ==
    /\ pc = "wait" /\ chan = <<>> /\ ~txAlive
    /\ Return(Err("MpscRecvTimeoutError", "Disconnected"))
    /\ UNCHANGED <<bank, reqAt, chan, sent, received, log>>
    /\ UNCHANGED <<codecVars, scalarVars>>

CanDeliver ==
    /\ inOpen /\ txAlive
    /\ pc \in {"send", "wait"}
    /\ Len(received) < MaxFrames

\* lines 92-107, for a frame parse_msg returns from
Callback(f) ==
    /\ CanDeliver
    /\ LET m == parse_msg(f)
       IN  /\ m.tag # "Panic"
           /\ IF m.tag = "Some"
              THEN IF m.msg[1] = "Bank"
                   THEN /\ log' = IF bank # m.msg[2]
                                  THEN Append(log, "error: received bank, expected")
                                  ELSE log
                        /\ chan' = Append(chan, m.msg[3])
                   ELSE /\ log' = Append(log, "warn: Unexpected message (ignored)")
                        /\ UNCHANGED chan
              ELSE /\ log' = Append(log, "warn: Unparsed")
                   /\ UNCHANGED chan
    /\ received' = Append(received, f)
    /\ UNCHANGED <<pc, bank, reqAt, txAlive, inOpen, outOpen, sent, result>>
    /\ UNCHANGED <<codecVars, scalarVars>>

\* line 93, for a frame parse_msg panics on, where the panic unwinds the
\* transport's thread: the closure is dropped, and its Sender with it
CallbackPanicUnwind(f) ==
    /\ CanDeliver
    /\ parse_msg(f).tag = "Panic"
    /\ received' = Append(received, f)
    /\ txAlive' = FALSE
    /\ UNCHANGED <<pc, bank, reqAt, chan, inOpen, outOpen, sent, log, result>>
    /\ UNCHANGED <<codecVars, scalarVars>>

\* line 93, for a frame parse_msg panics on, where the panic cannot unwind
\* (a callback run from foreign code, or panic=abort): the process ends
CallbackPanicAbort(f) ==
    /\ CanDeliver
    /\ parse_msg(f).tag = "Panic"
    /\ received' = Append(received, f)
    /\ pc' = "aborted"
    /\ UNCHANGED <<bank, reqAt, chan, txAlive, inOpen, outOpen, sent, log, result>>
    /\ UNCHANGED <<codecVars, scalarVars>>

CallerStep ==
    \/ \E b \in 0..MaxBankArg : Call(b)
    \/ MidiOutConnectOk
    \/ MidiOutConnectFail
    \/ MidiInConnectOk
    \/ MidiInConnectFail
    \/ SendOk
    \/ SendFail
    \/ RecvOk
    \/ RecvTimeout
    \/ RecvDisconnected

TransportStep ==
    \/ \E f \in InboundFrames : Callback(f)
    \/ \E f \in InboundFrames : CallbackPanicUnwind(f)
    \/ \E f \in InboundFrames : CallbackPanicAbort(f)

-----------------------------------------------------------------------------
(* operations.rs: set_bank_from_desc.  sysex_set_bank is called there but   *)
(* defined in no file at hand; it is taken from the protocol description:   *)
(* F0 47 00 26 64 00 6D <bank> <into_bytes(bank_desc)> F7.                  *)

SYSEX_SET_BANK == <<0, 38, 100, 0, 109>>

sysex_set_bank(id, bank_desc) ==
    LET e == MpkBankDescriptor_into_bytes(bank_desc)
    IN  IF e.tag # "Ok" THEN e
        ELSE Ok(<<MIDI_SYSEX, SYSEX_AKAI>> \o SYSEX_SET_BANK \o <<id>> \o e.v
                    \o <<MIDI_SYSEX_END>>)

\* the positions of a set_bank_from_desc call
SetPcs == {"set_connect", "set_send", "set_done", "set_aborted"}

\* lines 121-124: the index check
SetCall(b, d) ==
    /\ pc = "idle"
    /\ bank' = b
    /\ din' = d
    /\ IF b > 4
       THEN /\ result' = Err("BankIndexOutOfBounds", b)
            /\ pc' = "set_done"
       ELSE /\ pc' = "set_connect"
            /\ UNCHANGED result
    /\ UNCHANGED <<reqAt, chan, txAlive, inOpen, outOpen, sent, received, log>>
    /\ UNCHANGED <<cpc, buf, dec, enc, msg, shown, doc, loaded>>
    /\ UNCHANGED scalarVars

\* line 126
SetMidiOutConnectOk ==
    /\ pc = "set_connect"
    /\ pc' = "set_send"
    /\ outOpen' = TRUE
    /\ UNCHANGED <<bank, reqAt, chan, txAlive, inOpen, sent, received, log, result>>
    /\ UNCHANGED <<codecVars, scalarVars>>

SetMidiOutConnectFail ==
    /\ pc = "set_connect"
    /\ result' = Err("MidiOutputPortNotFound", 0)
    /\ pc' = "set_done"
    /\ UNCHANGED <<bank, reqAt, chan, txAlive, inOpen, outOpen, sent, received, log>>
    /\ UNCHANGED <<codecVars, scalarVars>>

\* lines 127-130: the frame is built, sent, the port closed, Ok(()) returned
SetSendOk_twice ==
    /\ pc = "set_send"
    /\ sysex_set_bank(bank, din).tag = "Ok"
    /\ sent' = sent \o <<sysex_set_bank(bank, din).v, sysex_set_bank(bank, din).v>>
    /\ outOpen' = FALSE
    /\ result' = Ok(<<>>)
    /\ pc' = "set_done"
    /\ UNCHANGED <<bank, reqAt, chan, txAlive, inOpen, received, log>>
    /\ UNCHANGED <<codecVars, scalarVars>>

SetSendOk ==
    /\ pc = "set_send"
    /\ sysex_set_bank(bank, din).tag = "Ok"
    /\ sent' = Append(sent, sysex_set_bank(bank, din).v)
    /\ outOpen' = FALSE
    /\ result' = Ok(<<>>)
    /\ pc' = "set_done"
    /\ UNCHANGED <<bank, reqAt, chan, txAlive, inOpen, received, log>>
    /\ UNCHANGED <<codecVars, scalarVars>>

\* line 127: send fails; `?` returns and midi_out is dropped
SetSendFail ==
    /\ pc = "set_send"
    /\ sysex_set_bank(bank, din).tag = "Ok"
    /\ result' = Err("MidirSendError", 0)
    /\ outOpen' = FALSE
    /\ pc' = "set_done"
    /\ UNCHANGED <<bank, reqAt, chan, txAlive, inOpen, sent, received, log>>
    /\ UNCHANGED <<codecVars, scalarVars>>

\* line 127: into_bytes panics while the argument of send is built
SetEncodePanic ==
    /\ pc = "set_send"
    /\ sysex_set_bank(bank, din).tag = "Panic"
    /\ outOpen' = FALSE
    /\ pc' = "set_aborted"
    /\ UNCHANGED <<bank, reqAt, chan, txAlive, inOpen, sent, received, log, result>>
    /\ UNCHANGED <<codecVars, scalarVars>>

SetStep ==
    \/ \E b \in 0..MaxBankArg, d \in DescInputs : SetCall(b, d)
    \/ SetMidiOutConnectOk
    \/ SetMidiOutConnectFail
    \/ SetSendOk
    \/ SetSendFail
    \/ SetEncodePanic

Next == CallerStep \/ TransportStep \/ SetStep

Spec == InitCorr /\ [][Next]_vars

-----------------------------------------------------------------------------
(* operations.rs: passthrough.  The callback decodes and prints each        *)
(* inbound frame and puts its bytes on the channel; the loop takes frames   *)
(* off the channel and sends them to the output port.                       *)

PtFrames ==
    { <<MIDI_NOTE_ON, 60, 100>>,
      <<MIDI_RESET>>,
      BankFrame(SYSEX_AKAI, 1, Patched({})),
      <<MIDI_SYSEX, SYSEX_AKAI, 1, MIDI_SYSEX_END>>,
      <<>> }

ForwardError == "error: Error while forwarding"
ReceiveError == "error: Error while receiving"

\* line 54
PtStart ==
    /\ pc = "idle"
    /\ pc' = "pt_out_connect"
    /\ txAlive' = TRUE
    /\ UNCHANGED <<bank, reqAt, chan, inOpen, outOpen, sent, received, log, result>>
    /\ UNCHANGED <<codecVars, scalarVars>>

\* an early return drops the closure (and its Sender) and both connections
PtReturn(r) ==
    /\ result' = r
    /\ pc' = "pt_done"
    /\ txAlive' = FALSE
    /\ inOpen' = FALSE
    /\ outOpen' = FALSE

\* line 67
PtOutConnectOk ==
    /\ pc = "pt_out_connect"
    /\ pc' = "pt_in_connect"
    /\ outOpen' = TRUE
    /\ UNCHANGED <<bank, reqAt, chan, txAlive, inOpen, sent, received, log, result>>
    /\ UNCHANGED <<codecVars, scalarVars>>

PtOutConnectFail ==
    /\ pc = "pt_out_connect"
    /\ PtReturn(Err("MidiOutputPortNotFound", 0))
    /\ UNCHANGED <<bank, reqAt, chan, sent, received, log>>
    /\ UNCHANGED <<codecVars, scalarVars>>

\* line 68: from here on the transport may run the callback
PtInConnectOk ==
    /\ pc = "pt_in_connect"
    /\ pc' = "pt_loop"
    /\ inOpen' = TRUE
    /\ UNCHANGED <<bank, reqAt, chan, txAlive, outOpen, sent, received, log, result>>
    /\ UNCHANGED <<codecVars, scalarVars>>

PtInConnectFail ==
    /\ pc = "pt_in_connect"
    /\ PtReturn(Err("MidiInputPortNotFound", 0))
    /\ UNCHANGED <<bank, reqAt, chan, sent, received, log>>
    /\ UNCHANGED <<codecVars, scalarVars>>

PtCanDeliver ==
    /\ inOpen /\ txAlive
    /\ pc = "pt_loop"
    /\ Len(received) < MaxFrames

\* lines 56-65, for a frame parse_msg returns from: the message is printed
\* or the frame reported as unparsed, then the bytes go on the channel (the
\* Receiver lives as long as the loop, so tx.send succeeds)
PtCallback(f) ==
    /\ PtCanDeliver
    /\ parse_msg(f).tag # "Panic"
    /\ log' = IF parse_msg(f).tag = "Some" THEN log
              ELSE Append(log, "warn: Unparsed")
    /\ chan' = Append(chan, f)
    /\ received' = Append(received, f)
    /\ UNCHANGED <<pc, bank, reqAt, txAlive, inOpen, outOpen, sent, result>>
    /\ UNCHANGED <<codecVars, scalarVars>>

\* line 58, for a frame parse_msg panics on, where the panic unwinds the
\* transport's thread: the closure is dropped before tx.send is reached
PtCallbackPanicUnwind(f) ==
    /\ PtCanDeliver
    /\ parse_msg(f).tag = "Panic"
    /\ received' = Append(received, f)
    /\ txAlive' = FALSE
    /\ UNCHANGED <<pc, bank, reqAt, chan, inOpen, outOpen, sent, log, result>>
    /\ UNCHANGED <<codecVars, scalarVars>>

\* line 58, for a frame parse_msg panics on, where the panic cannot unwind:
\* the process ends
PtCallbackPanicAbort(f) ==
    /\ PtCanDeliver
    /\ parse_msg(f).tag = "Panic"
    /\ received' = Append(received, f)
    /\ pc' = "pt_aborted"
    /\ UNCHANGED <<bank, reqAt, chan, txAlive, inOpen, outOpen, sent, log, result>>
    /\ UNCHANGED <<codecVars, scalarVars>>

\* lines 72-74: recv returns the oldest frame, midi_out.send succeeds
PtForwardOk ==
    /\ pc = "pt_loop" /\ chan # <<>>
    /\ sent' = Append(sent, Head(chan))
    /\ chan' = Tail(chan)
    /\ UNCHANGED <<pc, bank, reqAt, txAlive, inOpen, outOpen, received, log, result>>
    /\ UNCHANGED <<codecVars, scalarVars>>

\* lines 74-76: midi_out.send fails; the error is logged and the loop goes on
PtForwardFail ==
    /\ pc = "pt_loop" /\ chan # <<>>
    /\ chan' = Tail(chan)
    /\ log' = Append(log, ForwardError)
    /\ UNCHANGED <<pc, bank, reqAt, txAlive, inOpen, outOpen, sent, received, result>>
    /\ UNCHANGED <<codecVars, scalarVars>>

\* lines 78-80: the channel is empty and its Sender is gone; recv fails at
\* once, the error is logged and the loop goes on (the line repeats without
\* end; it is recorded once)
PtRecvDisconnected ==
    /\ pc = "pt_loop" /\ chan = <<>> /\ ~txAlive
    /\ \A i \in 1..Len(log) : log[i] # ReceiveError
    /\ log' = Append(log, ReceiveError)
    /\ UNCHANGED <<pc, bank, reqAt, chan, txAlive, inOpen, outOpen, sent, received, result>>
    /\ UNCHANGED <<codecVars, scalarVars>>

PtCallerStep ==
    \/ PtStart
    \/ PtOutConnectOk
    \/ PtOutConnectFail
    \/ PtInConnectOk
    \/ PtInConnectFail
    \/ PtForwardOk
    \/ PtForwardFail
    \/ PtRecvDisconnected

PtTransportStep ==
    \/ \E f \in PtFrames : PtCallback(f)
    \/ \E f \in PtFrames : PtCallbackPanicUnwind(f)
    \/ \E f \in PtFrames : PtCallbackPanicAbort(f)

NextPass == PtCallerStep \/ PtTransportStep

SpecPass == InitCorr /\ [][NextPass]_vars

-----------------------------------------------------------------------------
(* Claims on get_bank_desc (Spec) *)

IsBankMsg(m, b) == m.tag = "Some" /\ m.msg[1] = "Bank" /\ m.msg[2] = b

\* C1: get_bank_desc(b) returns Ok(d) only if d is the descriptor of a
\* received frame that decodes to Bank(b, d).
C1_OnlyRequestedBank ==
    (pc = "done" /\ result.tag = "Ok") =>
        \E i \in 1..Len(received) :
            LET m == parse_msg(received[i])
            IN  IsBankMsg(m, bank) /\ m.msg[3] = result.v

\* C2: once the request is sent, a run in which no frame decoding to
\* Bank(b, _) arrives ends with the timeout error.
C2_TimeoutWithoutMatch ==
    (pc = "done" /\ sent # <<>>
        /\ \A i \in 1..Len(received) : ~IsBankMsg(parse_msg(received[i]), bank))
    => (result.tag = "Err" /\ result.kind = "MpscRecvTimeoutError")

\* C3: while get_bank_desc waits, a frame that decodes to a non-Bank message,
\* or does not decode, is dropped with a warning: the callback puts nothing
\* on the channel and the operation is neither completed nor failed by it.
C3_OtherFramesDiscarded ==
    [][ (pc = "wait" /\ received' # received
            /\ LET m == parse_msg(received'[Len(received')])
               IN  ~(m.tag = "Some" /\ m.msg[1] = "Bank"))
        => (/\ chan' = chan /\ txAlive' = txAlive /\ pc' = pc /\ result' = result
            /\ Len(log') = Len(log) + 1) ]_vars

\* the positions of a get_bank_desc call
GetPcs == {"out_connect", "in_connect", "send", "wait", "done", "aborted"}

\* C12: the get-bank request for bank i is the 9-byte frame
\* F0 47 00 26 66 00 01 i F7, and it is the one frame get_bank_desc(i) sends.
C12_GetBankRequest ==
    /\ \A i \in Byte : sysex_get_bank(i) = <<240, 71, 0, 38, 102, 0, 1, i, 247>>
    /\ pc \in GetPcs =>
           /\ sent \in {<<>>, << <<240, 71, 0, 38, 102, 0, 1, bank, 247>> >>}
           /\ (pc = "wait" \/ (pc = "done" /\ result.tag = "Ok")) => sent # <<>>

C12_Witness ==
    /\ pc = "wait" /\ bank = 1
    /\ sent = << <<240, 71, 0, 38, 102, 0, 1, 1, 247>> >>

\* C13: the set-bank request for bank i and descriptor d is F0 47, the
\* signature 00 26 64 00 6D, i, the 108 bytes of into_bytes(d) and F7, 117
\* bytes, and set_bank_from_desc(i, d) sends this one frame and nothing else.
C13_SetBankRequest ==
    pc \in SetPcs =>
        LET e == MpkBankDescriptor_into_bytes(din)
            frame == <<240, 71, 0, 38, 100, 0, 109, bank>> \o e.v \o <<247>>
        IN  /\ sent # <<>> => (e.tag = "Ok" /\ Len(e.v) = 108 /\ Len(frame) = 117
                                  /\ sent = <<frame>>)
            /\ (pc = "set_done" /\ result.tag = "Ok") => sent # <<>>
            /\ received = <<>> /\ chan = <<>>

C13_Witness ==
    /\ pc = "set_done" /\ result = Ok(<<>>) /\ bank = 4
    /\ din = DescPatched(BaseDescriptor, 5)
    /\ Len(sent) = 1 /\ Len(sent[1]) = 117
    /\ SubSeq(sent[1], 1, 8) = <<240, 71, 0, 38, 100, 0, 109, 4>>
    /\ sent[1][117] = 247

\* C14: get_bank_desc and set_bank_from_desc called with an index above 4
\* return BankIndexOutOfBounds with no port opened, no callback registered and
\* no byte sent; every index 0..4 passes the check.
C14_BankIndexCheck ==
    pc # "idle" =>
        IF bank > 4
        THEN /\ pc \in {"done", "set_done"}
             /\ result = Err("BankIndexOutOfBounds", bank)
             /\ ~outOpen /\ ~inOpen /\ ~txAlive
             /\ sent = <<>> /\ received = <<>> /\ chan = <<>>
        ELSE ~(result.tag = "Err" /\ result.kind = "BankIndexOutOfBounds")

C14_Witness ==
    /\ pc = "done" /\ bank = 5 /\ din = NoValue
    /\ result = Err("BankIndexOutOfBounds", 5)
    /\ ~outOpen /\ sent = <<>>

\* C22: the descriptor get_bank_desc returns is that of the earliest frame,
\* among those received after the request, that decodes to Bank with the
\* requested index; frames received later neither replace it nor produce a
\* second result.
C22_EarliestMatchingFrame ==
    (pc = "done" /\ result.tag = "Ok") =>
        LET matching == {i \in (reqAt + 1)..Len(received) :
                            IsBankMsg(parse_msg(received[i]), bank)}
        IN  /\ matching # {}
            /\ result.v = parse_msg(received[Min(matching)]).msg[3]
            /\ ~inOpen

\* C24: the core never retries.  In one call at most one frame is sent; a
\* call that returned a timeout, a send failure or a port-not-found failure
\* returned it in the step where the failure happened, with nothing sent in
\* that step, and once a call has returned or ended nothing more is sent.
C24_NeverRetries ==
    [][ /\ Len(sent') <= 1
        /\ (pc \in {"done", "set_done", "aborted", "set_aborted"}) => sent' = sent
        /\ (/\ result'.tag = "Err"
            /\ result'.kind \in {"MpscRecvTimeoutError", "MidirSendError",
                                 "MidiOutputPortNotFound",
                                 "MidiInputPortNotFound"}) =>
              /\ sent' = sent
              /\ pc' \in {"done", "set_done"}
              /\ result' = result \/ result = NoValue
        /\ (pc = "wait" /\ pc' # "wait") => pc' \in {"done", "aborted"}
        /\ (pc = "send" /\ pc' # "send") => pc' \in {"wait", "done", "aborted"}
        /\ (pc = "set_send" /\ pc' # "set_send") =>
              pc' \in {"set_done", "set_aborted"}
      ]_vars

C24_Witness ==
    /\ pc = "done"
    /\ result = Err("MpscRecvTimeoutError", "Timeout")
    /\ Len(sent) = 1
    /\ ~outOpen /\ ~inOpen

\* C27: in get_bank_desc nothing is sent before both ports are open and the
\* callback is registered; from the request until the call returns the
\* callback is registered and running, so that it sees a response emitted at
\* any time after the request; and a call that failed to open a port has sent
\* nothing.
C27_ReadyBeforeRequest ==
    /\ pc \in {"out_connect", "in_connect", "send"} => sent = <<>>
    /\ pc = "send" => (inOpen /\ outOpen)
    /\ pc = "wait" => (inOpen /\ outOpen /\ txAlive)
    /\ (/\ pc = "done" /\ result.tag = "Err"
        /\ result.kind \in {"MidiOutputPortNotFound", "MidiInputPortNotFound"})
          => sent = <<>>

-----------------------------------------------------------------------------
(* Claims on passthrough (SpecPass) *)

\* the sequence s without the elements at the positions in F
Without(s, F) ==
    LET keep == {i \in 1..Len(s) : i \notin F}
        nth[k \in 0..Len(s)] ==
            IF k = 0 THEN <<>>
            ELSE IF k \in keep THEN Append(nth[k - 1], s[k]) ELSE nth[k - 1]
    IN  nth[Len(s)]

ForwardFailures == Cardinality({i \in 1..Len(log) : log[i] = ForwardError})

\* C28: in passthrough every frame received on the input, whether it decodes
\* or not, is forwarded unmodified, once and in the order received: at any
\* time the frames sent followed by the frames still on the channel are the
\* frames received, in order, less those whose forwarding failed, and each
\* such failure is logged; the loop keeps running.
C28_ForwardsEveryFrame ==
    (pc \notin {"idle", "pt_out_connect", "pt_in_connect", "pt_done"}) =>
        /\ pc = "pt_loop" /\ outOpen
        /\ \E F \in SUBSET (1..Len(received)) :
              /\ Cardinality(F) = ForwardFailures
              /\ sent \o chan = Without(received, F)

====
